---- MODULE Spec2Model ----
(***************************************************************************)
(* validate_transaction (src/src/transactions.py) as a state machine.     *)
(*                                                                         *)
(* One call of the function is one behaviour: Init draws the transaction   *)
(* mapping (amount, date, account_id, account_exists, db) and the          *)
(* interpreter's date grammar, and the actions follow the function's       *)
(* control flow block by block, keeping its locals (errors, valid,         *)
(* exists) and recording every use of the caller-supplied collaborators.   *)
(* Text values are sequences of one-character strings so that float(),     *)
(* str() and date.fromisoformat() are computed, not assumed.               *)
(***************************************************************************)
EXTENDS Integers, Sequences, FiniteSets, TLC

VARIABLES
    amount,         \* transaction.get("amount")
    date,           \* transaction.get("date")
    account_id,     \* transaction.get("account_id")
    account_exists, \* transaction.get("account_exists")
    db,             \* transaction.get("db")
    isoExtended,    \* date.fromisoformat accepts every ISO-8601 date form (CPython >= 3.11)
    pc,             \* position in validate_transaction
    errors,         \* local `errors`
    valid,          \* local `valid`
    exists,         \* local `exists`
    cbCalls,        \* number of invocations of the account_exists callable
    dbLog,          \* methods invoked on the db handle and its cursor, in order
    raised          \* [exc, line]: the exception propagated to the caller and the
                    \* line raising it; exc = "none" while none is

vars == <<amount, date, account_id, account_exists, db, isoExtended,
          pc, errors, valid, exists, cbCalls, dbLog, raised>>

inputs == <<amount, date, account_id, account_exists, db, isoExtended>>

----------------------------------------------------------------------------
(* Bounds of the input space *)

MaxAmount == 1
MaxAccountId == 2

----------------------------------------------------------------------------
(* Text helpers *)

Digits == <<"0", "1", "2", "3", "4", "5", "6", "7", "8", "9">>

IsDigit(c) == \E i \in 1..10 : Digits[i] = c

DigitVal(c) == (CHOOSE i \in 1..10 : Digits[i] = c) - 1

AllDigits(s) == \A i \in 1..Len(s) : IsDigit(s[i])

RECURSIVE DecVal(_)
DecVal(s) ==
    IF Len(s) = 0 THEN 0
    ELSE DecVal(SubSeq(s, 1, Len(s) - 1)) * 10 + DigitVal(s[Len(s)])

\* str(n) of a non-negative int
RECURSIVE DecText(_)
DecText(n) ==
    IF n < 10 THEN <<Digits[n + 1]>>
    ELSE Append(DecText(n \div 10), Digits[(n % 10) + 1])

----------------------------------------------------------------------------
(* float(amount), lines 15-19.  A value is a record                        *)
(*   [kind, v, s]: kind "none" (None), "int" (v), "str" (text s),           *)
(*   "bigint" (an int beyond the range of a float, e.g. 10**400),           *)
(*   "list" (a value of a non-numeric type).                                *)
(* The result is [exc, cls, v]: exc the exception float() raises ("none"    *)
(* when it returns), cls/v the float returned: "fin" with value v, "nan",   *)
(* "inf" or "ninf" ("none" when it raises).                                 *)

Val(kind, v, s) == [kind |-> kind, v |-> v, s |-> s]

FloatOk(cls, v) == [exc |-> "none", cls |-> cls, v |-> v]

FloatRaises(exc) == [exc |-> exc, cls |-> "none", v |-> 0]

\* float() of a text of sign, digits and the words nan, inf
FloatOfText(s) ==
    LET signed == Len(s) > 0 /\ s[1] \in {"+", "-"}
        neg    == Len(s) > 0 /\ s[1] = "-"
        body   == IF signed THEN SubSeq(s, 2, Len(s)) ELSE s
    IN  IF body = <<"n", "a", "n">> THEN FloatOk("nan", 0)
        ELSE IF body = <<"i", "n", "f">>
            THEN FloatOk(IF neg THEN "ninf" ELSE "inf", 0)
        ELSE IF Len(body) > 0 /\ AllDigits(body)
            THEN FloatOk("fin", IF neg THEN 0 - DecVal(body) ELSE DecVal(body))
        ELSE FloatRaises("ValueError")

Float(a) ==
    CASE a.kind = "int"    -> FloatOk("fin", a.v)
      [] a.kind = "str"    -> FloatOfText(a.s)
      [] a.kind = "bigint" -> FloatRaises("OverflowError")
      [] OTHER             -> FloatRaises("TypeError")

\* amount_value <= 0 on a float (line 21): every comparison with nan is False
LeZero(f) ==
    CASE f.cls = "fin"  -> f.v <= 0
      [] f.cls = "ninf" -> TRUE
      [] OTHER          -> FALSE

\* the exceptions `except (TypeError, ValueError)` catches (line 17)
AmountCaught == {"TypeError", "ValueError"}

----------------------------------------------------------------------------
(* str(date_value) and date.fromisoformat, line 33.  A date value is a    *)
(* record [kind, v, s]: "none" (None), "str" (text s), "int" (v), "date"   *)
(* and "datetime" (native objects, s their str()), "badstr" (an object     *)
(* whose __str__ raises).                                                   *)

IsLeap(y) == y % 4 = 0 /\ (y % 100 # 0 \/ y % 400 = 0)

DaysInMonth(y, m) ==
    IF m = 2 THEN (IF IsLeap(y) THEN 29 ELSE 28)
    ELSE IF m \in {4, 6, 9, 11} THEN 30 ELSE 31

\* ordinal of 1 January of year y (0001-01-01 is day 1)
FirstDayOrd(y) ==
    (y - 1) * 365 + ((y - 1) \div 4) - ((y - 1) \div 100) + ((y - 1) \div 400) + 1

\* weekday (Monday = 0) of 1 January of year y
FirstWeekday(y) == (FirstDayOrd(y) + 6) % 7

\* ordinal of 9999-12-31, the last day a date holds
MaxOrdinal == FirstDayOrd(10000) - 1

ValidYMD(y, m, d) ==
    /\ y >= 1
    /\ m \in 1..12
    /\ d \in 1..DaysInMonth(y, m)

\* an ISO week date names a day a date can hold
ValidWeekDate(y, w, d) ==
    LET fw       == FirstWeekday(y)
        longYear == fw = 3 \/ (fw = 2 /\ IsLeap(y))
        monday1  == FirstDayOrd(y) - fw + (IF fw > 3 THEN 7 ELSE 0)
        ord      == monday1 + (w - 1) * 7 + (d - 1)
    IN  /\ y >= 1
        /\ w \in 1..53
        /\ (w = 53 => longYear)
        /\ d \in 1..7
        /\ ord \in 1..MaxOrdinal

Field(s, i, n) == SubSeq(s, i, i + n - 1)

\* YYYY-MM-DD naming a day of the calendar
IsCalendarDate(s) ==
    /\ Len(s) = 10
    /\ AllDigits(Field(s, 1, 4)) /\ s[5] = "-"
    /\ AllDigits(Field(s, 6, 2)) /\ s[8] = "-"
    /\ AllDigits(Field(s, 9, 2))
    /\ ValidYMD(DecVal(Field(s, 1, 4)), DecVal(Field(s, 6, 2)), DecVal(Field(s, 9, 2)))

\* YYYYMMDD
IsBasicDate(s) ==
    /\ Len(s) = 8
    /\ AllDigits(s)
    /\ ValidYMD(DecVal(Field(s, 1, 4)), DecVal(Field(s, 5, 2)), DecVal(Field(s, 7, 2)))

\* YYYY-Www, YYYY-Www-D, YYYYWww, YYYYWwwD
IsWeekDate(s) ==
    /\ Len(s) \in {7, 8, 10}
    /\ AllDigits(Field(s, 1, 4))
    /\ LET sep  == s[5] = "-"
           r    == IF sep THEN SubSeq(s, 6, Len(s)) ELSE SubSeq(s, 5, Len(s))
           y    == DecVal(Field(s, 1, 4))
       IN  /\ Len(r) >= 3 /\ r[1] = "W" /\ AllDigits(Field(r, 2, 2))
           /\ \/ Len(r) = 3 /\ ValidWeekDate(y, DecVal(Field(r, 2, 2)), 1)
              \/ /\ sep /\ Len(r) = 5 /\ r[4] = "-" /\ IsDigit(r[5])
                 /\ ValidWeekDate(y, DecVal(Field(r, 2, 2)), DigitVal(r[5]))
              \/ /\ ~sep /\ Len(r) = 4 /\ IsDigit(r[4])
                 /\ ValidWeekDate(y, DecVal(Field(r, 2, 2)), DigitVal(r[4]))

\* TRUE iff date.fromisoformat(s) returns; ext: the interpreter accepts every
\* ISO-8601 date form (CPython >= 3.11), otherwise YYYY-MM-DD only
FromIsoformat(s, ext) ==
    \/ IsCalendarDate(s)
    \/ ext /\ (IsBasicDate(s) \/ IsWeekDate(s))

\* str(date_value): [exc, s]
StrOf(d) ==
    CASE d.kind \in {"str", "date", "datetime"} -> [exc |-> "none", s |-> d.s]
      [] d.kind = "int" -> [exc |-> "none", s |-> DecText(d.v)]
      [] OTHER          -> [exc |-> "Exception", s |-> << >>]

\* isinstance(date_value, (date, datetime)), line 31
IsNativeDate(d) == d.kind \in {"date", "datetime"}


----------------------------------------------------------------------------
(* The input space *)

NoText == << >>

AmountValues ==
    {Val("none", 0, NoText), Val("bigint", 0, NoText), Val("list", 0, NoText)}
    \cup {Val("int", n, NoText) : n \in (0 - MaxAmount)..MaxAmount}
    \cup {Val("str", 0, s) : s \in {<<"a", "b", "c">>, <<"1", "0">>, <<"-", "5">>,
                                    <<"n", "a", "n">>, <<"i", "n", "f">>}}

DateValues ==
    {Val("none", 0, NoText), Val("badstr", 0, NoText), Val("int", 20240115, NoText),
     Val("date", 0, <<"2", "0", "2", "4", "-", "0", "1", "-", "1", "5">>),
     Val("datetime", 0, <<"2", "0", "2", "4", "-", "0", "1", "-", "1", "5", " ",
                          "1", "0", ":", "0", "0", ":", "0", "0">>)}
    \cup {Val("str", 0, s) : s \in
            {<<"2", "0", "2", "4", "-", "0", "1", "-", "1", "5">>,
             <<"2", "0", "2", "4", "-", "1", "3", "-", "4", "0">>,
             <<"2", "0", "2", "3", "-", "0", "2", "-", "2", "9">>,
             <<"2", "0", "2", "4", "0", "1", "1", "5">>,
             <<"2", "0", "2", "0", "-", "W", "5", "3", "-", "1">>,
             <<"a", "b", "c">>}}

\* "unformattable": a value whose formatting into text raises (10**5000 under
\* the interpreter's 4300-digit limit, an object whose __format__ raises)
AccountIdValues ==
    {[kind |-> "none", v |-> 0], [kind |-> "unformattable", v |-> 0]}
    \cup {[kind |-> "int", v |-> n] : n \in 1..MaxAccountId}

\* "fn": a callable, beh what it does when called: the value it returns
\* ("IsOne": id == 1; "BadBool": an object whose __bool__ raises) or
\* "Raises": it raises an Exception
CallableValues ==
    {[kind |-> "none", beh |-> "-"], [kind |-> "notcallable", beh |-> "-"]}
    \cup {[kind |-> "fn", beh |-> b] :
            b \in {"True", "False", "IsOne", "One", "None", "BadBool", "Raises"}}

\* "handle": an object with a cursor attribute; beh where the lookup fails,
\* rows the ids of the accounts table
DbValues ==
    {[kind |-> "none", beh |-> "-", rows |-> {}],
     [kind |-> "nocursor", beh |-> "-", rows |-> {}]}
    \cup {[kind |-> "handle", beh |-> b, rows |-> {}] :
            b \in {"cursorRaises", "executeRaises", "fetchoneRaises"}}
    \cup {[kind |-> "handle", beh |-> "table", rows |-> r] : r \in {{}, {1}}}

----------------------------------------------------------------------------
(* The checks of validate_transaction, each the errors it appends *)

\* lines 10-23: [exc, errs], exc the exception that escapes the amount check
AmountCheck(a) ==
    IF a.kind = "none" THEN [exc |-> "none", errs |-> <<"amount is required">>]
    ELSE LET f == Float(a)
         IN  IF f.exc \in AmountCaught
                 THEN [exc |-> "none", errs |-> <<"amount must be a number">>]
             ELSE IF f.exc # "none" THEN [exc |-> f.exc, errs |-> << >>]
             ELSE IF LeZero(f)
                 THEN [exc |-> "none", errs |-> <<"amount must be greater than 0">>]
             ELSE [exc |-> "none", errs |-> << >>]

\* lines 26-36: the errors of the date check
DateCheck(d, ext) ==
    IF d.kind = "none" THEN <<"date is required">>
    ELSE IF IsNativeDate(d) THEN << >>
    ELSE LET t == StrOf(d)
         IN  IF t.exc # "none" \/ ~FromIsoformat(t.s, ext)
                 THEN <<"date is not a valid date">>
             ELSE << >>

\* callable(account_exists_callable), line 46
Callable(f) == f.kind = "fn"

\* db is not None and hasattr(db, "cursor"), line 53
HasCursor(d) == d.kind = "handle"

\* account_exists_callable(account_id): [exc, ret]
CallResult(f, id) ==
    CASE f.beh = "True"    -> [exc |-> "none", ret |-> "True"]
      [] f.beh = "False"   -> [exc |-> "none", ret |-> "False"]
      [] f.beh = "IsOne"   ->
            [exc |-> "none",
             ret |-> IF id.kind = "int" /\ id.v = 1 THEN "True" ELSE "False"]
      [] f.beh = "One"     -> [exc |-> "none", ret |-> "1"]
      [] f.beh = "None"    -> [exc |-> "none", ret |-> "None"]
      [] f.beh = "BadBool" -> [exc |-> "none", ret |-> "BadBool"]
      [] OTHER             -> [exc |-> "Exception", ret |-> "None"]

\* bool(ret): [exc, b]
Bool(ret) ==
    CASE ret \in {"True", "1"}     -> [exc |-> "none", b |-> TRUE]
      [] ret \in {"False", "None"} -> [exc |-> "none", b |-> FALSE]
      [] OTHER                     -> [exc |-> "Exception", b |-> FALSE]

\* the value of `exists` when the try block raises (lines 50, 59)
ExistsOnException == FALSE

\* lines 47-50: the value of `exists` after the callback path
ExistsByCallable(f, id) ==
    LET r == CallResult(f, id)
    IN  IF r.exc # "none" THEN ExistsOnException
        ELSE IF Bool(r.ret).exc # "none" THEN ExistsOnException
        ELSE Bool(r.ret).b

\* db.cursor(), cur.execute(...), cur.fetchone(): [exc, log, row], log the
\* methods invoked on the handle, row whether fetchone returned a row
DbResult(d, id) ==
    CASE d.beh = "cursorRaises" ->
            [exc |-> "Exception", log |-> <<"cursor">>, row |-> FALSE]
      [] d.beh = "executeRaises" ->
            [exc |-> "Exception", log |-> <<"cursor", "execute">>, row |-> FALSE]
      [] d.beh = "fetchoneRaises" ->
            [exc |-> "Exception", log |-> <<"cursor", "execute", "fetchone">>,
             row |-> FALSE]
      [] OTHER ->
            [exc |-> "none", log |-> <<"cursor", "execute", "fetchone">>,
             row |-> id.kind = "int" /\ id.v \in d.rows]

\* lines 54-59: [log, exists]
DbLookup(d, id) ==
    LET r == DbResult(d, id)
    IN  [log |-> r.log,
         exists |-> IF r.exc = "none" THEN r.row ELSE ExistsOnException]

\* f"account with id {account_id} does not exist", line 65: [exc, msg]
NotExistsMessage(id) ==
    IF id.kind = "int"
        THEN [exc |-> "none",
              msg |-> "account with id " \o ToString(id.v) \o " does not exist"]
    ELSE [exc |-> "ValueError", msg |-> ""]

CouldNotVerify ==
    "account existence could not be verified (no db handler or callback provided)"

----------------------------------------------------------------------------
(* The state machine *)

NotRaised == [exc |-> "none", line |-> 0]

\* an exception leaves the function at line n
Raise(exc, n) ==
    /\ raised' = [exc |-> exc, line |-> n]
    /\ pc' = "raised"

Init ==
    /\ amount \in AmountValues
    /\ date \in DateValues
    /\ account_id \in AccountIdValues
    /\ account_exists \in CallableValues
    /\ db \in DbValues
    /\ isoExtended \in BOOLEAN
    /\ pc = "amount"
    /\ errors = << >>
    /\ valid = TRUE
    /\ exists = FALSE
    /\ cbCalls = 0
    /\ dbLog = << >>
    /\ raised = NotRaised

\* errors.append(e) without `valid = False`
AppendedKeepingValid(errs) ==
    /\ errors' = errors \o errs
    /\ valid' = valid

\* errors.insert(0, e) in place of errors.append(e)
Prepended(errs) ==
    /\ errors' = errs \o errors
    /\ valid' = (valid /\ errs = << >>)

\* `errors.append(e); valid = False` for each e of errs
Appended(errs) ==
    /\ errors' = errors \o errs
    /\ valid' = (valid /\ errs = << >>)

\* lines 10-23
CheckAmount ==
    /\ pc = "amount"
    /\ LET r == AmountCheck(amount)
       IN  IF r.exc # "none"
               THEN /\ Raise(r.exc, 16)
                    /\ UNCHANGED <<errors, valid>>
           ELSE /\ Appended(r.errs)
                /\ pc' = "date"
                /\ UNCHANGED raised
    /\ UNCHANGED <<inputs, exists, cbCalls, dbLog>>

\* lines 26-36
CheckDate ==
    /\ pc = "date"
    /\ Appended(DateCheck(date, isoExtended))
    /\ pc' = "account"
    /\ UNCHANGED <<inputs, exists, cbCalls, dbLog, raised>>

\* the `else:` of line 43 lost: the existence check runs without an account_id
CheckAccountIdFallingThrough ==
    /\ pc = "account"
    /\ IF account_id.kind = "none"
           THEN Appended(<<"account_id is required">>)
       ELSE UNCHANGED <<errors, valid>>
    /\ pc' = "select"
    /\ exists' = FALSE
    /\ UNCHANGED <<inputs, cbCalls, dbLog, raised>>

\* lines 39-44, then `return` (line 68) when account_id is None
CheckAccountId ==
    /\ pc = "account"
    /\ IF account_id.kind = "none"
           THEN /\ Appended(<<"account_id is required">>)
                /\ pc' = "returned"
       ELSE /\ pc' = "select"
            /\ UNCHANGED <<errors, valid>>
    /\ exists' = FALSE
    /\ UNCHANGED <<inputs, cbCalls, dbLog, raised>>

\* lines 46-50
CallAccountExists ==
    /\ pc = "select"
    /\ Callable(account_exists)
    /\ cbCalls' = cbCalls + 1
    /\ exists' = ExistsByCallable(account_exists, account_id)
    /\ pc' = "report"
    /\ UNCHANGED <<inputs, errors, valid, dbLog, raised>>

\* the `else:` of line 51 lost: the handle is queried beside the callable
QueryDbBesideCallable ==
    /\ pc = "select"
    /\ HasCursor(db)
    /\ LET r == DbLookup(db, account_id)
       IN  /\ dbLog' = dbLog \o r.log
           /\ exists' = r.exists
    /\ pc' = "report"
    /\ UNCHANGED <<inputs, errors, valid, cbCalls, raised>>

\* lines 52-59
QueryDb ==
    /\ pc = "select"
    /\ ~Callable(account_exists)
    /\ HasCursor(db)
    /\ LET r == DbLookup(db, account_id)
       IN  /\ dbLog' = dbLog \o r.log
           /\ exists' = r.exists
    /\ pc' = "report"
    /\ UNCHANGED <<inputs, errors, valid, cbCalls, raised>>

\* lines 60-62
NoMechanism ==
    /\ pc = "select"
    /\ ~Callable(account_exists)
    /\ ~HasCursor(db)
    /\ Appended(<<CouldNotVerify>>)
    /\ pc' = "report"
    /\ UNCHANGED <<inputs, exists, cbCalls, dbLog, raised>>

\* lines 64-68
ReportExistence ==
    /\ pc = "report"
    /\ IF exists
           THEN /\ pc' = "returned"
                /\ UNCHANGED <<errors, valid, raised>>
       ELSE LET m == NotExistsMessage(account_id)
            IN  IF m.exc # "none"
                    THEN /\ Raise(m.exc, 65)
                         /\ UNCHANGED <<errors, valid>>
                ELSE /\ Appended(<<m.msg>>)
                     /\ pc' = "returned"
                     /\ UNCHANGED raised
    /\ UNCHANGED <<inputs, exists, cbCalls, dbLog>>

Next ==
    \/ CheckAmount
    \/ CheckDate
    \/ CheckAccountId
    \/ CallAccountExists
    \/ QueryDb
    \/ NoMechanism
    \/ ReportExistence

Spec == Init /\ [][Next]_vars


----------------------------------------------------------------------------
(* Vocabulary of the properties *)

Returned == pc = "returned"

CallOver == pc \in {"returned", "raised"}

\* the account check (lines 39-66) was entered and the call is over
AccountCheckOver == Returned \/ (pc = "raised" /\ raised.line >= 39)

AmountMsgs ==
    {"amount is required", "amount must be a number", "amount must be greater than 0"}

DateMsgs == {"date is required", "date is not a valid date"}

DoesNotExist(n) == "account with id " \o ToString(n) \o " does not exist"

DoesNotExistMsgs == {DoesNotExist(n) : n \in 1..MaxAccountId}

AccountMsgs == {"account_id is required", CouldNotVerify} \cup DoesNotExistMsgs

IsAmountMsg(e) == e \in AmountMsgs
IsDateMsg(e) == e \in DateMsgs
IsAccountMsg(e) == e \in AccountMsgs

AmountPart == SelectSeq(errors, IsAmountMsg)
DatePart == SelectSeq(errors, IsDateMsg)
AccountPart == SelectSeq(errors, IsAccountMsg)

AccountPresent == account_id.kind # "none"

CallableSupplied == account_exists.kind = "fn"

HandleSupplied == db.kind = "handle"

\* C1: the result returned has valid = TRUE exactly when its errors are empty.
C1_ValidIffNoErrors == Returned => (valid <=> errors = << >>)

C1_Witness ==
    /\ Returned /\ ~valid /\ Len(errors) = 1
    /\ CallableSupplied /\ account_exists.beh = "Raises"

\* C2: no call ends by propagating an exception to the caller.
C2_NeverRaises == pc # "raised"

\* C3: in a returned errors sequence every amount error precedes every date
\* error and every date error precedes every account error (and every entry
\* is one of the three kinds).
C3_ErrorOrder ==
    Returned => errors = AmountPart \o DatePart \o AccountPart

C3_Witness ==
    /\ Returned
    /\ Len(AmountPart) = 1 /\ Len(DatePart) = 1 /\ Len(AccountPart) = 2

\* C4: the amount check contributes "amount is required" when amount is
\* absent, "amount must be a number" when amount is no real number,
\* "amount must be greater than 0" when its value is <= 0, and nothing
\* exactly when its value is > 0.
AmountPartSpecified ==
    LET f      == Float(amount)
        isReal == f.exc = "none" /\ f.cls # "nan"
        pos    == isReal /\ (f.cls = "inf" \/ (f.cls = "fin" /\ f.v > 0))
    IN  IF amount.kind = "none" THEN <<"amount is required">>
        ELSE IF ~isReal THEN <<"amount must be a number">>
        ELSE IF ~pos THEN <<"amount must be greater than 0">>
        ELSE << >>

C4_AmountErrorAsSpecified == Returned => AmountPart = AmountPartSpecified

\* C4, the part the code satisfies: the same on every amount that does not
\* coerce to nan.
C4_HoldsApartFromNaN ==
    (Returned /\ Float(amount).cls # "nan") => AmountPart = AmountPartSpecified

\* C5: the date check contributes "date is required" when date is absent,
\* nothing for a native date/datetime, and otherwise "date is not a valid
\* date" exactly when the string form is no YYYY-MM-DD calendar date.
DatePartSpecified ==
    IF date.kind = "none" THEN <<"date is required">>
    ELSE IF date.kind \in {"date", "datetime"} THEN << >>
    ELSE IF date.kind \in {"str", "int"} /\ IsCalendarDate(StrOf(date).s)
        THEN << >>
    ELSE <<"date is not a valid date">>

C5_DateErrorAsSpecified == Returned => DatePart = DatePartSpecified

\* C5, the part the code satisfies: the same under an interpreter whose
\* date.fromisoformat accepts YYYY-MM-DD only.
C5_HoldsOnStrictGrammar ==
    (Returned /\ ~isoExtended) => DatePart = DatePartSpecified

\* C6: with account_id present and no usable mechanism, the account check
\* contributes exactly "could not be verified" then "does not exist".
C6_TwoErrorsWithoutMechanism ==
    (AccountCheckOver /\ AccountPresent /\ ~CallableSupplied /\ ~HandleSupplied) =>
        /\ Len(AccountPart) = 2
        /\ AccountPart[1] = CouldNotVerify
        /\ AccountPart[2] \in DoesNotExistMsgs

\* C6, the part the code satisfies: the same on every call that returns.
C6_HoldsOnReturn ==
    (Returned /\ AccountPresent /\ ~CallableSupplied /\ ~HandleSupplied) =>
        AccountPart = <<CouldNotVerify, DoesNotExist(account_id.v)>>

\* the mechanism selected for this call raises
MechanismRaises ==
    \/ CallableSupplied /\ account_exists.beh \in {"Raises", "BadBool"}
    \/ ~CallableSupplied /\ HandleSupplied /\ db.beh # "table"

\* C7: with account_id present and the selected mechanism raising, the
\* account check contributes exactly the one error "does not exist".
C7_RaisingMechanismIsNotFound ==
    (AccountCheckOver /\ AccountPresent /\ MechanismRaises) =>
        /\ Len(AccountPart) = 1
        /\ AccountPart[1] \in DoesNotExistMsgs

\* C7, the part the code satisfies: the same on every call that returns.
C7_HoldsOnReturn ==
    (Returned /\ AccountPresent /\ MechanismRaises) =>
        AccountPart = <<DoesNotExist(account_id.v)>>

\* C8: with account_id absent no existence attempt is ever made, and the
\* account check contributes exactly "account_id is required".
C8_AbsentAccountIdNoAttempt ==
    ~AccountPresent =>
        /\ cbCalls = 0 /\ dbLog = << >>
        /\ AccountCheckOver => AccountPart = <<"account_id is required">>

C8_Witness ==
    /\ Returned /\ ~AccountPresent /\ CallableSupplied /\ HandleSupplied
    /\ AccountPart = <<"account_id is required">>

\* what the callable's return value is as a boolean (FALSE when it raises)
ReturnsTruthy ==
    \/ account_exists.beh \in {"True", "One"}
    \/ account_exists.beh = "IsOne" /\ account_id = [kind |-> "int", v |-> 1]

\* the accounts table holds a row for account_id
RowFound ==
    db.beh = "table" /\ account_id.kind = "int" /\ account_id.v \in db.rows

\* the existence mechanism has run and handed control back
MechanismDone == AccountPresent /\ pc \in {"report", "returned"}

\* C9: a supplied callable decides existence (the boolean of its return
\* value) and the db handle is then never touched; the handle is queried
\* only when no callable is supplied, and existence is then whether the
\* lookup returned a row.
C9_CallablePrecedesDb ==
    /\ CallableSupplied => dbLog = << >>
    /\ dbLog # << >> => cbCalls = 0
    /\ (MechanismDone /\ CallableSupplied) =>
            (exists <=> ReturnsTruthy) /\ cbCalls = 1
    /\ (MechanismDone /\ ~CallableSupplied /\ HandleSupplied) =>
            /\ exists <=> RowFound
            /\ cbCalls = 0
            /\ Len(dbLog) >= 1
            /\ dbLog = SubSeq(<<"cursor", "execute", "fetchone">>, 1, Len(dbLog))
    /\ (Returned /\ AccountPresent) =>
            (exists <=> \A i \in 1..Len(errors) : errors[i] \notin DoesNotExistMsgs)

C9_Witness ==
    /\ Returned /\ CallableSupplied /\ account_exists.beh = "False"
    /\ HandleSupplied /\ RowFound
    /\ ~exists /\ dbLog = << >> /\ Len(AccountPart) = 1

\* the number of times the selected mechanism was invoked
Invocations ==
    cbCalls + Len(SelectSeq(dbLog, LAMBDA m : m = "cursor"))

\* the kinds of the account errors, in order
AccountKinds ==
    [i \in 1..Len(AccountPart) |->
        IF AccountPart[i] \in DoesNotExistMsgs THEN "does not exist"
        ELSE AccountPart[i]]

\* the account errors as account_id, account_exists and db alone decide them
AccountKindsExpected ==
    IF ~AccountPresent THEN <<"account_id is required">>
    ELSE IF CallableSupplied
        THEN (IF ReturnsTruthy THEN << >> ELSE <<"does not exist">>)
    ELSE IF HandleSupplied
        THEN (IF RowFound THEN << >> ELSE <<"does not exist">>)
    ELSE <<CouldNotVerify, "does not exist">>

\* C10: once a call is over, a usable mechanism supplied with a present
\* account_id was invoked exactly once, and the account errors are those
\* account_id, account_exists and db decide, whatever amount and date are.
C10_ChecksNeverShortCircuit ==
    CallOver =>
        /\ (AccountPresent /\ (CallableSupplied \/ HandleSupplied)) => Invocations = 1
        /\ AccountKinds = AccountKindsExpected

\* C10, the part the code satisfies: the same on every call that returns,
\* and no mechanism is ever invoked twice.
C10_HoldsOnReturn ==
    /\ Invocations <= 1
    /\ Returned =>
        /\ (AccountPresent /\ (CallableSupplied \/ HandleSupplied)) => Invocations = 1
        /\ AccountKinds = AccountKindsExpected

====
